---- MODULE Spec2Model ----
(***************************************************************************)
(* A model of the text-similarity engine of the plagiarism checker:        *)
(* plagiarism_utils.py (the three scorers, the aggregate, preprocessing    *)
(* and path validation) and main.py (the command-line run).                *)
(*                                                                         *)
(* Python values are modelled by what they are: a str is a sequence of     *)
(* Unicode code points, a list of tokens is a sequence of such sequences,  *)
(* an int is an integer and a float is an IEEE-754 binary64 value, kept    *)
(* exactly (mantissa and exponent) and rounded to nearest-even after every *)
(* operation, as CPython does.                                             *)
(***************************************************************************)
EXTENDS Integers, Sequences, FiniteSets, TLC

\* ---------------------------------------------------------------------------
\* Arithmetic of Python's float
\* ---------------------------------------------------------------------------
\* Unbounded naturals as little-endian sequences of 15-bit limbs (no high zero
\* limb; zero is the empty sequence).
LimbBits == 15

RECURSIVE Pow2(_)
Pow2(k) == IF k = 0 THEN 1 ELSE 2 * Pow2(k - 1)

Base == Pow2(LimbBits)

RECURSIVE BitLenSmall(_)
BitLenSmall(n) == IF n = 0 THEN 0 ELSE 1 + BitLenSmall(n \div 2)

RECURSIVE BNorm(_)
BNorm(x) ==
    IF x = <<>> THEN <<>>
    ELSE IF x[Len(x)] = 0 THEN BNorm(SubSeq(x, 1, Len(x) - 1)) ELSE x

RECURSIVE BFromInt(_)
BFromInt(n) == IF n = 0 THEN <<>> ELSE <<n % Base>> \o BFromInt(n \div Base)

RECURSIVE BToInt(_)
BToInt(x) == IF x = <<>> THEN 0 ELSE Head(x) + Base * BToInt(Tail(x))

RECURSIVE Zeros(_)
Zeros(k) == IF k = 0 THEN <<>> ELSE <<0>> \o Zeros(k - 1)

RECURSIVE BAddC(_, _, _)
BAddC(x, y, c) ==
    IF x = <<>> /\ y = <<>> THEN (IF c = 0 THEN <<>> ELSE <<c>>)
    ELSE LET a == IF x = <<>> THEN 0 ELSE Head(x)
             b == IF y = <<>> THEN 0 ELSE Head(y)
             s == a + b + c
         IN  <<s % Base>> \o BAddC(IF x = <<>> THEN <<>> ELSE Tail(x),
                                   IF y = <<>> THEN <<>> ELSE Tail(y),
                                   s \div Base)

BAdd(x, y) == BAddC(x, y, 0)

\* x - y - b for x >= y + b, before normalisation
RECURSIVE BSubB(_, _, _)
BSubB(x, y, b) ==
    IF x = <<>> THEN <<>>
    ELSE LET s == Head(x) - (IF y = <<>> THEN 0 ELSE Head(y)) - b
         IN  <<IF s < 0 THEN s + Base ELSE s>>
               \o BSubB(Tail(x), IF y = <<>> THEN <<>> ELSE Tail(y),
                        IF s < 0 THEN 1 ELSE 0)

BSub(x, y) == BNorm(BSubB(x, y, 0))

RECURSIVE BCmpFrom(_, _, _)
BCmpFrom(x, y, i) ==
    IF i = 0 THEN 0
    ELSE IF x[i] < y[i] THEN -1
    ELSE IF x[i] > y[i] THEN 1
    ELSE BCmpFrom(x, y, i - 1)

BCmp(x, y) ==
    IF Len(x) < Len(y) THEN -1
    ELSE IF Len(x) > Len(y) THEN 1
    ELSE BCmpFrom(x, y, Len(x))

RECURSIVE BMulSC(_, _, _)
BMulSC(x, k, c) ==
    IF x = <<>> THEN (IF c = 0 THEN <<>> ELSE <<c>>)
    ELSE LET p == Head(x) * k + c
         IN  <<p % Base>> \o BMulSC(Tail(x), k, p \div Base)

BMulS(x, k) == IF k = 0 THEN <<>> ELSE BMulSC(x, k, 0)

RECURSIVE BMul(_, _)
BMul(x, y) ==
    IF x = <<>> \/ y = <<>> THEN <<>>
    ELSE LET rest == BMul(x, Tail(y))
         IN  BAdd(BMulS(x, Head(y)),
                  IF rest = <<>> THEN <<>> ELSE <<0>> \o rest)

\* quotient and remainder of x by a small k (0 < k <= Base), limbs i.. of x
RECURSIVE BDivSFrom(_, _, _)
BDivSFrom(x, k, i) ==
    IF i > Len(x) THEN [q |-> <<>>, r |-> 0]
    ELSE LET hi  == BDivSFrom(x, k, i + 1)
             cur == hi.r * Base + x[i]
         IN  [q |-> <<cur \div k>> \o hi.q, r |-> cur % k]

BDivS(x, k) == LET d == BDivSFrom(x, k, 1) IN [q |-> BNorm(d.q), r |-> d.r]

BShl(x, s) ==
    IF x = <<>> THEN <<>>
    ELSE Zeros(s \div LimbBits) \o BMulS(x, Pow2(s % LimbBits))

BShr(x, s) ==
    IF s \div LimbBits >= Len(x) THEN <<>>
    ELSE BDivS(SubSeq(x, (s \div LimbBits) + 1, Len(x)), Pow2(s % LimbBits)).q

BBitLen(x) ==
    IF x = <<>> THEN 0
    ELSE LimbBits * (Len(x) - 1) + BitLenSmall(x[Len(x)])

BIsOdd(x) == x # <<>> /\ Head(x) % 2 = 1

\* the limbs of x from the i-th up, as a small integer (at most two limbs)
BTop(x, i) ==
    IF i > Len(x) THEN 0
    ELSE IF i = Len(x) THEN x[i]
    ELSE x[i] + Base * x[i + 1]

\* the digit d < Base with d * y <= cur < (d + 1) * y, for cur < Base * y and a
\* divisor y whose top limb is at least Base / 2: the top limbs of cur and y
\* bracket d within a few candidates
BDigit(cur, y) ==
    LET c2 == BTop(cur, Len(y))
        yt == y[Len(y)]
        lo == c2 \div (yt + 1)
        up == (c2 + 1) \div yt
        hi == IF up >= Base THEN Base - 1 ELSE up
    IN  CHOOSE d \in lo..hi :
            /\ BCmp(BMulS(y, d), cur) <= 0
            /\ BCmp(BMulS(y, d + 1), cur) > 0

\* long division of x by y (top limb at least Base / 2), limbs i.. of x
RECURSIVE BDivFrom(_, _, _)
BDivFrom(x, y, i) ==
    IF i > Len(x) THEN [q |-> <<>>, r |-> <<>>]
    ELSE LET hi  == BDivFrom(x, y, i + 1)
             cur == BNorm(<<x[i]>> \o hi.r)
             d   == IF BCmp(cur, y) < 0 THEN 0 ELSE BDigit(cur, y)
         IN  [q |-> <<d>> \o hi.q, r |-> BSub(cur, BMulS(y, d))]

\* quotient and remainder of x by y > 0
BDivMod(x, y) ==
    LET sh == LimbBits - BitLenSmall(y[Len(y)])
        d  == BDivFrom(BShl(x, sh), BShl(y, sh), 1)
    IN  [q |-> BNorm(d.q), r |-> BShr(d.r, sh)]

\* floor of the square root of n > 0 by Newton's iteration from x >= sqrt(n)
RECURSIVE BSqrtFrom(_, _)
BSqrtFrom(n, x) ==
    LET y == BShr(BAdd(x, BDivMod(n, x).q), 1)
    IN  IF BCmp(y, x) >= 0 THEN x ELSE BSqrtFrom(n, y)

BSqrt(n) == IF n = <<>> THEN <<>> ELSE BSqrtFrom(n, BShl(<<1>>, (BBitLen(n) + 1) \div 2))

\* IEEE-754 binary64 values in the normal range: (-1)^neg * m * 2^e with a
\* 53-bit m (2^52 <= m < 2^53); zero is m = <<>>, e = 0, neg = FALSE. Every
\* operation computes the exact result and rounds it to nearest, ties to even.
Precision == 53

FZero == [neg |-> FALSE, m |-> <<>>, e |-> 0]

\* (-1)^neg * n * 2^e rounded to binary64; sticky says that the exact magnitude
\* is a little above n * 2^e
FRound(neg, n, e, sticky) ==
    LET L == BBitLen(n)
    IN  IF n = <<>> THEN FZero
        ELSE IF L <= Precision
        THEN [neg |-> neg, m |-> BShl(n, Precision - L), e |-> e - (Precision - L)]
        ELSE LET t    == L - Precision
                 q    == BShr(n, t)
                 rem  == BSub(n, BShl(q, t))
                 c    == BCmp(rem, BShl(<<1>>, t - 1))
                 up   == c > 0 \/ (c = 0 /\ (sticky \/ BIsOdd(q)))
                 q2   == IF up THEN BAdd(q, <<1>>) ELSE q
             IN  IF BBitLen(q2) > Precision
                 THEN [neg |-> neg, m |-> BShr(q2, 1), e |-> e + t + 1]
                 ELSE [neg |-> neg, m |-> q2, e |-> e + t]

\* float(n) for an int n
FFromInt(n) == FRound(n < 0, BFromInt(IF n < 0 THEN -n ELSE n), 0, FALSE)

FOne == FFromInt(1)

FNeg(x) == IF x.m = <<>> THEN x ELSE [x EXCEPT !.neg = ~x.neg]

\* the order of the magnitudes: -1, 0 or 1
FCmpAbs(x, y) ==
    IF x.m = <<>> THEN (IF y.m = <<>> THEN 0 ELSE -1)
    ELSE IF y.m = <<>> THEN 1
    ELSE IF x.e < y.e THEN -1
    ELSE IF x.e > y.e THEN 1
    ELSE BCmp(x.m, y.m)

FCmp(x, y) ==
    IF x.neg # y.neg THEN (IF x.neg THEN -1 ELSE 1)
    ELSE IF x.neg THEN FCmpAbs(y, x)
    ELSE FCmpAbs(x, y)

FLe(x, y) == FCmp(x, y) <= 0
FLt(x, y) == FCmp(x, y) < 0

Min2(a, b) == IF a < b THEN a ELSE b

FAdd(x, y) ==
    IF x.m = <<>> THEN y
    ELSE IF y.m = <<>> THEN x
    ELSE LET e  == Min2(x.e, y.e)
             xm == BShl(x.m, x.e - e)
             ym == BShl(y.m, y.e - e)
         IN  IF x.neg = y.neg THEN FRound(x.neg, BAdd(xm, ym), e, FALSE)
             ELSE IF BCmp(xm, ym) >= 0 THEN FRound(x.neg, BSub(xm, ym), e, FALSE)
             ELSE FRound(y.neg, BSub(ym, xm), e, FALSE)

FSub(x, y) == FAdd(x, FNeg(y))

FMul(x, y) == FRound(x.neg # y.neg, BMul(x.m, y.m), x.e + y.e, FALSE)

\* extra quotient bits kept before rounding (whole limbs)
GuardBits == 4 * LimbBits

\* x / y for y # 0
FDiv(x, y) ==
    IF x.m = <<>> THEN FZero
    ELSE LET d == BDivMod(BShl(x.m, GuardBits), y.m)
         IN  FRound(x.neg # y.neg, d.q, x.e - GuardBits - y.e, d.r # <<>>)

\* the correctly rounded square root of an integer n >= 0
FSqrtInt(n) ==
    LET big == BShl(BFromInt(n), 2 * GuardBits)
        s   == BSqrt(big)
    IN  FRound(FALSE, s, -GuardBits, BCmp(BMul(s, s), big) # 0)

\* ---------------------------------------------------------------------------
\* Python values
\* ---------------------------------------------------------------------------
\* the outcome of a call: a returned value or a raised exception
Return(v) == [kind |-> "return", value |-> v]
Raise(exc) == [kind |-> "raise", exc |-> exc]
NoOutcome == [kind |-> "none"]

\* int / int: true division, ZeroDivisionError on a zero divisor
TrueDiv(a, b) ==
    IF b = 0 THEN Raise("ZeroDivisionError")
    ELSE Return(FDiv(FFromInt(a), FFromInt(b)))

\* float / float
FloatDiv(x, y) ==
    IF y.m = <<>> THEN Raise("ZeroDivisionError")
    ELSE Return(FDiv(x, y))

\* a defaultdict(int) read at a key
Get(d, k) == IF k \in DOMAIN d THEN d[k] ELSE 0

\* d[k] += n on a defaultdict(int)
Incr(d, k, n) == [w \in DOMAIN d \cup {k} |-> Get(d, w) + (IF w = k THEN n ELSE 0)]

EmptyDict == [w \in {} |-> 0]

\* the elements of a sequence
Range(seq) == {seq[i] : i \in 1..Len(seq)}

\* all sequences over S of length at most n
SeqsUpTo(S, n) == UNION {[1..k -> S] : k \in 0..n}

\* ---------------------------------------------------------------------------
\* word_frequency_match
\* ---------------------------------------------------------------------------
\* original_counts after the loop over the first k words of original
RECURSIVE original_counts(_, _)
original_counts(original, k) ==
    IF k = 0 THEN EmptyDict
    ELSE Incr(original_counts(original, k - 1), original[k], 1)

\* the state of the matching loop after the first k words of plagiarized,
\* started with the counts of lines 229-231
RECURSIVE NoDecrementLoop(_, _, _)
NoDecrementLoop(counts, plagiarized, k) ==
    IF k = 0 THEN [matched_count |-> 0, original_counts |-> counts]
    ELSE LET prev == NoDecrementLoop(counts, plagiarized, k - 1)
             word == plagiarized[k]
         IN  [matched_count |-> prev.matched_count
                                    + (IF Get(prev.original_counts, word) > 0 THEN 1 ELSE 0),
              original_counts |-> prev.original_counts]

RECURSIVE MatchLoop(_, _, _)
MatchLoop(counts, plagiarized, k) ==
    IF k = 0 THEN [matched_count |-> 0, original_counts |-> counts]
    ELSE LET prev == MatchLoop(counts, plagiarized, k - 1)
             word == plagiarized[k]
         IN  [matched_count |-> prev.matched_count
                                    + (IF Get(prev.original_counts, word) > 0 THEN 1 ELSE 0),
              original_counts |-> IF Get(prev.original_counts, word) > 0
                                  THEN Incr(prev.original_counts, word, -1)
                                  ELSE prev.original_counts]

\* original_counts is complete before the loop starts; with no counts at all
\* no word of plagiarized is matched
matched_count(original, plagiarized) ==
    LET counts == original_counts(original, Len(original))
    IN  IF DOMAIN counts = {} THEN 0
        ELSE MatchLoop(counts, plagiarized, Len(plagiarized)).matched_count

\* word_frequency_match without the check of lines 225-226
word_frequency_match_unguarded(original, plagiarized) ==
    TrueDiv(matched_count(original, plagiarized), Len(plagiarized))

\* word_frequency_match dividing by len(original) at line 241
word_frequency_match_by_original(original, plagiarized) ==
    IF original = <<>> \/ plagiarized = <<>> THEN Return(FZero)
    ELSE TrueDiv(matched_count(original, plagiarized), Len(original))

word_frequency_match(original, plagiarized) ==
    IF original = <<>> \/ plagiarized = <<>> THEN Return(FZero)
    ELSE TrueDiv(matched_count(original, plagiarized), Len(plagiarized))

\* ---------------------------------------------------------------------------
\* Tokens, strings and the thesaurus
\* ---------------------------------------------------------------------------
\* the tokens "a", "b", "c", "d" and the thesaurus-only terms "x", "y"
TokA == <<97>>
TokB == <<98>>
TokC == <<99>>
TokD == <<100>>
TermX == <<120>>
TermY == <<121>>

\* the static table of synonym_database: "a" lists "b" (which has no entry of
\* its own), "c" lists "x" and "y", "d" lists "x"
Thesaurus == (TokA :> {TokB}) @@ (TokC :> {TermX, TermY}) @@ (TokD :> {TermX})

\* the token and the entries the table holds for it
get_synonyms(token) ==
    {token} \cup (IF token \in DOMAIN Thesaurus THEN Thesaurus[token] ELSE {})

\* ---------------------------------------------------------------------------
\* cosine_similarity_score
\* ---------------------------------------------------------------------------
vocab_set(original, plagiarized) ==
    UNION {get_synonyms(outer_token) : outer_token \in Range(original \o plagiarized)}

\* word_counts of get_vector after the first k tokens, counting each token only
RECURSIVE word_counts_no_synonyms(_, _)
word_counts_no_synonyms(tokens, k) ==
    IF k = 0 THEN EmptyDict
    ELSE Incr(word_counts_no_synonyms(tokens, k - 1), tokens[k], 1)

\* word_counts of get_vector after the first k tokens
RECURSIVE word_counts(_, _)
word_counts(tokens, k) ==
    IF k = 0 THEN EmptyDict
    ELSE LET prev == word_counts(tokens, k - 1)
             syn  == get_synonyms(tokens[k])
         IN  [w \in DOMAIN prev \cup syn |->
                 Get(prev, w) + (IF w \in syn THEN 1 ELSE 0)]

\* the vector, indexed by the word of the vocabulary it counts
get_vector(tokens, vocab) ==
    [word \in vocab |-> Get(word_counts(tokens, Len(tokens)), word)]

RECURSIVE SetSum(_, _)
SetSum(f, S) ==
    IF S = {} THEN 0
    ELSE LET w == CHOOSE w \in S : TRUE
         IN  f[w] + SetSum(f, S \ {w})

dot_product(a, b) == SetSum([w \in DOMAIN a |-> a[w] * b[w]], DOMAIN a)

\* the sum of the entries, not of their squares
SumEntries(v) == SetSum(v, DOMAIN v)

SumSquares(v) == SetSum([w \in DOMAIN v |-> v[w] * v[w]], DOMAIN v)

\* math.sqrt of an int, tabulated once for the sums of squares the bounded
\* inputs can give
MaxCosLen == 2
SqrtTable == [n \in 0..(3 * (MaxCosLen + 1) * (MaxCosLen + 1)) |-> FSqrtInt(n)]
math_sqrt(n) == SqrtTable[n]

\* the values of the locals of cosine_similarity_score
CosineLocals(original, plagiarized) ==
    LET vocab == vocab_set(original, plagiarized)
        original_vector    == get_vector(original, vocab)
        plagiarized_vector == get_vector(plagiarized, vocab)
    IN  [vocab              |-> vocab,
         original_vector    |-> original_vector,
         plagiarized_vector |-> plagiarized_vector,
         dot_product        |-> dot_product(original_vector, plagiarized_vector),
         sumsq_original     |-> SumSquares(original_vector),
         sumsq_plagiarized  |-> SumSquares(plagiarized_vector)]

\* the dot product divided by the norm of original only
cosine_quotient_one_norm(dot, norm_original, norm_plagiarized) ==
    IF norm_original = FZero \/ norm_plagiarized = FZero THEN Return(FZero)
    ELSE FloatDiv(FFromInt(dot), norm_original)

\* lines 299-303: the zero check and the quotient
cosine_quotient(dot, norm_original, norm_plagiarized) ==
    IF norm_original = FZero \/ norm_plagiarized = FZero THEN Return(FZero)
    ELSE FloatDiv(FFromInt(dot), FMul(norm_original, norm_plagiarized))

\* lines 295-303 on the locals l
cosine_of(l) ==
    cosine_quotient(l.dot_product, math_sqrt(l.sumsq_original), math_sqrt(l.sumsq_plagiarized))

cosine_similarity_score(original, plagiarized) ==
    IF original = <<>> \/ plagiarized = <<>> THEN Return(FZero)
    ELSE cosine_of(CosineLocals(original, plagiarized))

\* ---------------------------------------------------------------------------
\* edit_distance_similarity
\* ---------------------------------------------------------------------------
Min3(a, b, c) == Min2(a, Min2(b, c))
Max2(a, b) == IF a > b THEN a ELSE b

\* the inner loop with the substitution case left out of the minimum
RECURSIVE dp_fill_no_substitution(_, _, _, _, _)
dp_fill_no_substitution(original, plagiarized, i, prev, j) ==
    IF j = 0 THEN <<i>>
    ELSE LET left == dp_fill_no_substitution(original, plagiarized, i, prev, j - 1)
         IN  Append(left,
                    IF original[i] = plagiarized[j]
                    THEN prev[j]
                    ELSE 1 + Min2(prev[j + 1], left[j]))

\* dp[i][0..j] once the inner loop has filled it up to column j, as a sequence
\* whose (j+1)-th element is dp[i][j]; prev is the finished row dp[i-1]
RECURSIVE dp_fill(_, _, _, _, _)
dp_fill(original, plagiarized, i, prev, j) ==
    IF j = 0 THEN <<i>>
    ELSE LET left == dp_fill(original, plagiarized, i, prev, j - 1)
         IN  Append(left,
                    IF original[i] = plagiarized[j]
                    THEN prev[j]
                    ELSE 1 + Min3(prev[j + 1], left[j], prev[j]))

\* the finished row dp[i]
RECURSIVE dp_row(_, _, _)
dp_row(original, plagiarized, i) ==
    IF i = 0 THEN [j \in 1..(Len(plagiarized) + 1) |-> j - 1]
    ELSE dp_fill(original, plagiarized, i,
                 dp_row(original, plagiarized, i - 1), Len(plagiarized))

\* dp[len_original][len_plagiarized]
edit_distance(original, plagiarized) ==
    dp_row(original, plagiarized, Len(original))[Len(plagiarized) + 1]

\* 1 - x for a float x
OneMinus(q) == IF q.kind = "raise" THEN q ELSE Return(FSub(FOne, q.value))

\* the distance divided by the length of original instead of the longer length
edit_distance_similarity_by_original(original, plagiarized) ==
    IF original = <<>> \/ plagiarized = <<>> THEN Return(FZero)
    ELSE OneMinus(TrueDiv(edit_distance(original, plagiarized), Len(original)))

edit_distance_similarity(original, plagiarized) ==
    IF original = <<>> \/ plagiarized = <<>> THEN Return(FZero)
    ELSE LET max_length == Max2(Len(original), Len(plagiarized))
         IN  OneMinus(TrueDiv(edit_distance(original, plagiarized), max_length))

\* ---------------------------------------------------------------------------
\* calculate_similarity
\* ---------------------------------------------------------------------------
\* the mean of three scores, or the first exception
mean_of_scores(f, c, d) ==
    IF f.kind = "raise" THEN f
    ELSE IF c.kind = "raise" THEN c
    ELSE IF d.kind = "raise" THEN d
    ELSE FloatDiv(FAdd(FAdd(f.value, c.value), d.value), FFromInt(3))

\* the mean of the three scores without the check of the inputs
calculate_similarity_unchecked(original_tokens, plagiarized_tokens, original_str, plagiarized_str) ==
    mean_of_scores(word_frequency_match(original_tokens, plagiarized_tokens),
                   cosine_similarity_score(original_tokens, plagiarized_tokens),
                   edit_distance_similarity(original_str, plagiarized_str))

\* the body is not among the sources; it is modelled from the specification
\* (empty input is rejected) and from the formula the test suite documents:
\* (frequency + cosine + edit distance) / 3
calculate_similarity(original_tokens, plagiarized_tokens, original_str, plagiarized_str) ==
    IF \/ original_tokens = <<>> \/ plagiarized_tokens = <<>>
       \/ original_str = <<>> \/ plagiarized_str = <<>>
    THEN Raise("ValueError")
    ELSE mean_of_scores(word_frequency_match(original_tokens, plagiarized_tokens),
                        cosine_similarity_score(original_tokens, plagiarized_tokens),
                        edit_distance_similarity(original_str, plagiarized_str))

\* ---------------------------------------------------------------------------
\* Characters: a str is a sequence of code points
\* ---------------------------------------------------------------------------
\* '\u4e00' <= char <= '\u9fff'
is_chinese_char(char) == 19968 <= char /\ char <= 40959

\* str.isalnum on the code points the texts of the model are made of: ASCII
\* letters and digits and the CJK ideographs
isalnum(char) ==
    \/ 48 <= char /\ char <= 57
    \/ 65 <= char /\ char <= 90
    \/ 97 <= char /\ char <= 122
    \/ 13312 <= char /\ char <= 19903
    \/ 19968 <= char /\ char <= 40959

\* str.lower on the same code points
lower(char) == IF 65 <= char /\ char <= 90 THEN char + 32 ELSE char

\* string.punctuation and the marks the source adds to it
punctuation ==
    (33..47) \cup (58..64) \cup (91..96) \cup (123..126)
    \cup {65281, 65311, 12290, 65292, 12289, 65307, 65306, 8220, 8221, 8216, 8217,
          65288, 65289, 12304, 12305, 12298, 12299}

\* the code points str.isspace and the pattern \s accept
whitespace ==
    (9..13) \cup (28..32) \cup {133, 160, 5760} \cup (8192..8202)
    \cup {8232, 8233, 8239, 8287, 12288}

\* str.strip()
RECURSIVE lstrip(_)
lstrip(str) ==
    IF str # <<>> /\ Head(str) \in whitespace THEN lstrip(Tail(str)) ELSE str

RECURSIVE rstrip(_)
rstrip(str) ==
    IF str # <<>> /\ str[Len(str)] \in whitespace
    THEN rstrip(SubSeq(str, 1, Len(str) - 1)) ELSE str

strip(str) == rstrip(lstrip(str))

\* str.replace(old, '') for a single character old
RECURSIVE remove_char(_, _)
remove_char(str, old) ==
    IF str = <<>> THEN <<>>
    ELSE (IF Head(str) = old THEN <<>> ELSE <<Head(str)>>) \o remove_char(Tail(str), old)

\* ''.join(parts)
RECURSIVE join(_)
join(parts) == IF parts = <<>> THEN <<>> ELSE Head(parts) \o join(Tail(parts))

\* ---------------------------------------------------------------------------
\* preprocess_text
\* ---------------------------------------------------------------------------
\* translate with string.punctuation alone, without the marks line 145 adds
RECURSIVE translate_ascii_only(_)
translate_ascii_only(text) ==
    IF text = <<>> THEN <<>>
    ELSE (IF Head(text) \in punctuation /\ Head(text) < 128 THEN <<>> ELSE <<Head(text)>>)
             \o translate_ascii_only(Tail(text))

\* text.translate(translator): the characters of punctuation deleted
RECURSIVE translate(_)
translate(text) ==
    IF text = <<>> THEN <<>>
    ELSE (IF Head(text) \in punctuation THEN <<>> ELSE <<Head(text)>>) \o translate(Tail(text))

\* re.sub(r'\s+', '', str)
RECURSIVE remove_whitespace(_)
remove_whitespace(str) ==
    IF str = <<>> THEN <<>>
    ELSE (IF Head(str) \in whitespace THEN <<>> ELSE <<Head(str)>>)
             \o remove_whitespace(Tail(str))

edit_str(text) == remove_whitespace(translate(text))

\* the first loop without the lowercasing of line 164
RECURSIVE split_loop_keep_case(_, _)
split_loop_keep_case(text, k) ==
    IF k = 0 THEN [tokens |-> <<>>, temp_english |-> <<>>]
    ELSE LET prev == split_loop_keep_case(text, k - 1)
             char == text[k]
         IN  IF isalnum(char) /\ ~is_chinese_char(char)
             THEN [prev EXCEPT !.temp_english = Append(@, char)]
             ELSE LET flushed == IF prev.temp_english # <<>>
                                 THEN Append(prev.tokens, prev.temp_english)
                                 ELSE prev.tokens
                  IN  [tokens |-> IF is_chinese_char(char)
                                  THEN Append(flushed, <<char>>) ELSE flushed,
                       temp_english |-> <<>>]

\* tokens and temp_english after the loop over the first k characters of text
RECURSIVE split_loop(_, _)
split_loop(text, k) ==
    IF k = 0 THEN [tokens |-> <<>>, temp_english |-> <<>>]
    ELSE LET prev == split_loop(text, k - 1)
             char == text[k]
         IN  IF isalnum(char) /\ ~is_chinese_char(char)
             THEN [prev EXCEPT !.temp_english = Append(@, lower(char))]
             ELSE LET flushed == IF prev.temp_english # <<>>
                                 THEN Append(prev.tokens, prev.temp_english)
                                 ELSE prev.tokens
                  IN  [tokens |-> IF is_chinese_char(char)
                                  THEN Append(flushed, <<char>>) ELSE flushed,
                       temp_english |-> <<>>]

\* tokens after the loop and the flush that follows it
split_tokens(text) ==
    LET last == split_loop(text, Len(text))
    IN  IF last.temp_english # <<>> THEN Append(last.tokens, last.temp_english)
        ELSE last.tokens

has_chinese(token) == \E i \in 1..Len(token) : is_chinese_char(token[i])

\* the second loop adding the token of line 200 before the result of line 196
RECURSIVE segment_loop_token_first(_, _)
segment_loop_token_first(tokens, k) ==
    IF k = 0 THEN [parts |-> <<>>, temp_chinese |-> <<>>]
    ELSE LET prev == segment_loop_token_first(tokens, k - 1)
             current_token == tokens[k]
         IN  IF has_chinese(current_token)
             THEN [prev EXCEPT !.temp_chinese = Append(@, current_token)]
             ELSE [parts |-> Append(prev.parts, [token |-> current_token])
                                 \o (IF prev.temp_chinese # <<>>
                                     THEN <<[cut |-> join(prev.temp_chinese)]>> ELSE <<>>),
                   temp_chinese |-> <<>>]

\* the second loop after the first k tokens: chinese_tokens is kept as the
\* sequence of its parts, a token added as it is or the result of a call of
\* jieba.cut, named by the string the call is given
RECURSIVE segment_loop(_, _)
segment_loop(tokens, k) ==
    IF k = 0 THEN [parts |-> <<>>, temp_chinese |-> <<>>]
    ELSE LET prev == segment_loop(tokens, k - 1)
             current_token == tokens[k]
         IN  IF has_chinese(current_token)
             THEN [prev EXCEPT !.temp_chinese = Append(@, current_token)]
             ELSE LET flushed == IF prev.temp_chinese # <<>>
                                 THEN Append(prev.parts, [cut |-> join(prev.temp_chinese)])
                                 ELSE prev.parts
                  IN  [parts |-> Append(flushed, [token |-> current_token]),
                       temp_chinese |-> <<>>]

\* the parts of chinese_tokens after the loop and the flush that follows it
segment_parts(tokens) ==
    LET last == segment_loop(tokens, Len(tokens))
    IN  IF last.temp_chinese # <<>>
        THEN Append(last.parts, [cut |-> join(last.temp_chinese)])
        ELSE last.parts

\* the strings jieba.cut is called with, in the order of the calls
RECURSIVE cut_inputs(_)
cut_inputs(parts) ==
    IF parts = <<>> THEN <<>>
    ELSE (IF "cut" \in DOMAIN Head(parts) THEN <<Head(parts).cut>> ELSE <<>>)
             \o cut_inputs(Tail(parts))

\* every way to split str into non-empty pieces, in order
RECURSIVE Segmentations(_)
Segmentations(str) ==
    IF str = <<>> THEN {<<>>}
    ELSE UNION {{<<SubSeq(str, 1, n)>> \o rest :
                    rest \in Segmentations(SubSeq(str, n + 1, Len(str)))} :
                n \in 1..Len(str)}

\* jieba.cut(str, cut_all=False) is a library call: a segmenter is any function
\* that gives each string it is called with one of its segmentations
Segmenters(inputs) ==
    {cut \in [inputs -> UNION {Segmentations(str) : str \in inputs}] :
        \A str \in inputs : cut[str] \in Segmentations(str)}

\* chinese_tokens: the parts in order, each call replaced by its result
RECURSIVE splice(_, _)
splice(parts, cut) ==
    IF parts = <<>> THEN <<>>
    ELSE (IF "cut" \in DOMAIN Head(parts) THEN cut[Head(parts).cut]
          ELSE <<Head(parts).token>>) \o splice(Tail(parts), cut)

\* [token for token in chinese_tokens if token.strip()]
RECURSIVE filter_tokens(_)
filter_tokens(chinese_tokens) ==
    IF chinese_tokens = <<>> THEN <<>>
    ELSE (IF strip(Head(chinese_tokens)) # <<>> THEN <<Head(chinese_tokens)>> ELSE <<>>)
             \o filter_tokens(Tail(chinese_tokens))

\* the strings jieba.cut is called with while text is preprocessed
jieba_inputs(text) == Range(cut_inputs(segment_parts(split_tokens(text))))

\* preprocess_text with the segmenter cut: (final_tokens, edit_str)
preprocess_text(text, cut) ==
    IF text = <<>> THEN [tokens |-> <<>>, str |-> <<>>]
    ELSE [tokens |-> filter_tokens(splice(segment_parts(split_tokens(text)), cut)),
          str    |-> edit_str(text)]

\* ---------------------------------------------------------------------------
\* Files: a path is the sequence of its components, the file system a function
\* from the paths that exist to what is there
\* ---------------------------------------------------------------------------
Home == <<"home">>
Cwd == <<".">>

\* os.path.expanduser
expanduser(path) ==
    IF path # <<>> /\ Head(path) = "~" THEN Home \o Tail(path) ELSE path

\* os.path.dirname
dirname(path) == IF path = <<>> THEN <<>> ELSE SubSeq(path, 1, Len(path) - 1)

\* the directory that holds path
Parent(path) == IF Len(path) <= 1 THEN Cwd ELSE dirname(path)

File(content, size, readable, writable, broken) ==
    [kind |-> "file", content |-> content, size |-> size,
     readable |-> readable, writable |-> writable, broken |-> broken]

Dir(writable) == [kind |-> "dir", writable |-> writable]

exists(files, path) == path \in DOMAIN files
isfile(files, path) == exists(files, path) /\ files[path].kind = "file"
isdir(files, path) == exists(files, path) /\ files[path].kind = "dir"
access_R_OK(files, path) ==
    exists(files, path) /\ (files[path].kind = "file" => files[path].readable)
access_W_OK(files, path) == exists(files, path) /\ files[path].writable

\* 100 * 1024 * 1024
SizeLimit == 104857600

\* validate_file_path with the two size checks moved before the permission check
validate_file_path_size_first(files, file_path) ==
    LET path == expanduser(file_path)
    IN  IF file_path = <<>> THEN Raise("ValueError")
        ELSE IF ~exists(files, path) THEN Raise("FileNotFoundError")
        ELSE IF ~isfile(files, path) THEN Raise("IsADirectoryError")
        ELSE IF files[path].size = 0 THEN Raise("ValueError")
        ELSE IF files[path].size > SizeLimit THEN Raise("IOError")
        ELSE IF ~access_R_OK(files, path) THEN Raise("PermissionError")
        ELSE Return(path)

\* validate_file_path(file_path, file_type): the path returned or the exception
validate_file_path(files, file_path) ==
    LET path == expanduser(file_path)
    IN  IF file_path = <<>> THEN Raise("ValueError")
        ELSE IF ~exists(files, path) THEN Raise("FileNotFoundError")
        ELSE IF ~isfile(files, path) THEN Raise("IsADirectoryError")
        ELSE IF ~access_R_OK(files, path) THEN Raise("PermissionError")
        ELSE IF files[path].size = 0 THEN Raise("ValueError")
        ELSE IF files[path].size > SizeLimit THEN Raise("IOError")
        ELSE Return(path)

\* bytes.decode('utf-8', errors='replace'): an ill-formed sequence gives U+FFFD
\* for its longest prefix that starts a well-formed one
Continuation(b) == 128 <= b /\ b <= 191
ReplacementChar == 65533

\* the range the second byte of a sequence that starts with b must lie in
SecondLow(b) == IF b = 224 THEN 160 ELSE IF b = 240 THEN 144 ELSE 128
SecondHigh(b) == IF b = 237 THEN 159 ELSE IF b = 244 THEN 143 ELSE 191

\* the length of the sequence a first byte announces, 0 for a byte none starts with
SequenceLength(b) ==
    IF b < 128 THEN 1
    ELSE IF 194 <= b /\ b <= 223 THEN 2
    ELSE IF 224 <= b /\ b <= 239 THEN 3
    ELSE IF 240 <= b /\ b <= 244 THEN 4
    ELSE 0

\* how many bytes from position i on form a prefix of a well-formed sequence
WellFormedPrefix(data, i) ==
    LET n == SequenceLength(data[i])
        ok2 == i + 1 <= Len(data) /\ SecondLow(data[i]) <= data[i + 1]
                   /\ data[i + 1] <= SecondHigh(data[i])
        ok3 == ok2 /\ i + 2 <= Len(data) /\ Continuation(data[i + 2])
        ok4 == ok3 /\ i + 3 <= Len(data) /\ Continuation(data[i + 3])
    IN  IF n <= 1 THEN 1
        ELSE IF ~ok2 THEN 1
        ELSE IF n = 2 THEN 2
        ELSE IF ~ok3 THEN 2
        ELSE IF n = 3 THEN 3
        ELSE IF ~ok4 THEN 3
        ELSE 4

CodePoint(data, i, n) ==
    IF n = 1 THEN data[i]
    ELSE IF n = 2 THEN (data[i] - 192) * 64 + (data[i + 1] - 128)
    ELSE IF n = 3 THEN (data[i] - 224) * 4096 + (data[i + 1] - 128) * 64 + (data[i + 2] - 128)
    ELSE (data[i] - 240) * 262144 + (data[i + 1] - 128) * 4096
             + (data[i + 2] - 128) * 64 + (data[i + 3] - 128)

RECURSIVE decode_from(_, _)
decode_from(data, i) ==
    IF i > Len(data) THEN <<>>
    ELSE LET n == SequenceLength(data[i])
             k == WellFormedPrefix(data, i)
         IN  <<IF n > 0 /\ k = n THEN CodePoint(data, i, n) ELSE ReplacementChar>>
                 \o decode_from(data, i + k)

decode_utf8_replace(data) == decode_from(data, 1)

\* the newline translation of a file read in text mode
RECURSIVE universal_newlines(_)
universal_newlines(str) ==
    IF str = <<>> THEN <<>>
    ELSE IF Head(str) = 13
    THEN <<10>> \o universal_newlines(IF Len(str) >= 2 /\ str[2] = 10
                                      THEN SubSeq(str, 3, Len(str)) ELSE Tail(str))
    ELSE <<Head(str)>> \o universal_newlines(Tail(str))

\* read_file(file_path): the first encoding, utf-8 with errors='replace', never
\* fails to decode, so no other encoding is tried; every exception is wrapped
\* in an Exception
read_file(files, file_path) ==
    IF ~isfile(files, file_path) \/ ~files[file_path].readable \/ files[file_path].broken
    THEN Raise("Exception")
    ELSE LET content == strip(universal_newlines(decode_utf8_replace(files[file_path].content)))
         IN  IF remove_char(remove_char(remove_char(content, 13), 10), 32) = <<>>
             THEN Raise("Exception")
             ELSE Return(content)

\* str.encode('utf-8')
RECURSIVE encode_utf8(_)
encode_utf8(str) ==
    IF str = <<>> THEN <<>>
    ELSE LET c == Head(str)
         IN  (IF c < 128 THEN <<c>>
              ELSE IF c < 2048 THEN <<192 + (c \div 64), 128 + (c % 64)>>
              ELSE IF c < 65536
              THEN <<224 + (c \div 4096), 128 + ((c \div 64) % 64), 128 + (c % 64)>>
              ELSE <<240 + (c \div 262144), 128 + ((c \div 4096) % 64),
                     128 + ((c \div 64) % 64), 128 + (c % 64)>>)
                 \o encode_utf8(Tail(str))

\* open(path, 'w') and write: the exception, or the file system with the file
\* holding data
write_file(files, path, data) ==
    IF exists(files, path)
    THEN IF ~isfile(files, path) THEN Raise("IsADirectoryError")
         ELSE IF ~files[path].writable THEN Raise("PermissionError")
         ELSE IF files[path].broken THEN Raise("OSError")
         ELSE Return([files EXCEPT ![path] = File(data, Len(data), @.readable, TRUE, FALSE)])
    ELSE IF ~isdir(files, Parent(path)) THEN Raise("FileNotFoundError")
         ELSE IF ~files[Parent(path)].writable THEN Raise("PermissionError")
         ELSE Return((path :> File(data, Len(data), TRUE, TRUE, FALSE)) @@ files)

\* os.makedirs(path, exist_ok=True) for a directory one level below one that exists
makedirs(files, path) ==
    IF isdir(files, path) THEN Return(files)
    ELSE IF exists(files, path) THEN Raise("FileExistsError")
    ELSE IF ~isdir(files, Parent(path)) THEN Raise("FileNotFoundError")
    ELSE IF ~files[Parent(path)].writable THEN Raise("PermissionError")
    ELSE Return((path :> Dir(TRUE)) @@ files)

\* ---------------------------------------------------------------------------
\* round(x, 2) and the format .2f
\* ---------------------------------------------------------------------------
\* the integer nearest to 100 * x for a float x >= 0, ties to the even one
Hundredths(x) ==
    LET n == BMulS(x.m, 100)
    IN  IF x.m = <<>> THEN 0
        ELSE IF x.e >= 0 THEN BToInt(BShl(n, x.e))
        ELSE LET t   == 0 - x.e
                 q   == BShr(n, t)
                 rem == BSub(n, BShl(q, t))
                 c   == BCmp(rem, BShl(<<1>>, t - 1))
             IN  BToInt(IF c > 0 \/ (c = 0 /\ BIsOdd(q)) THEN BAdd(q, <<1>>) ELSE q)

\* round(x, 2): the float nearest to the decimal with two places nearest to x
round2(x) == FDiv(FFromInt(Hundredths(x)), FFromInt(100))

RECURSIVE digits(_)
digits(n) == IF n < 10 THEN <<48 + n>> ELSE digits(n \div 10) \o <<48 + (n % 10)>>

\* f"{x:.2f}" for x >= 0
format_2f(x) ==
    LET h == Hundredths(x)
    IN  digits(h \div 100) \o <<46, 48 + ((h % 100) \div 10), 48 + (h % 10)>>

\* ---------------------------------------------------------------------------
\* The scorers as a state machine: a call with its arguments, then its outcome
\* ---------------------------------------------------------------------------
VARIABLES
    fn,       \* the function called
    args,     \* its arguments
    pc,       \* where the call is
    ret,      \* its outcome, Return(value) or Raise(exception), once it has one
    locals,   \* the values of its local variables
    fs        \* the file system

vars == <<fn, args, pc, ret, locals, fs>>

NoFiles == [path \in {} |-> Dir(TRUE)]

NoLocals == EmptyDict

\* the inputs of the calls: every list or string over a small alphabet, and the
\* inputs of the test suite
WfmTokens == {TokA, TokB, TokC}
CosTokens == {TokA, TokB, TokC, TokD}
EditChars == {97, 98}
MaxWfmLen == 3
MaxEditLen == 4

\* test_word_frequency_match_identical, test_word_frequency_match_different
WfmTestInputs ==
    {[original    |-> <<<<36825>>, <<26159>>, <<19968, 20010>>, <<27979, 35797>>, <<21477, 23376>>>>,
      plagiarized |-> <<<<36825>>, <<26159>>, <<19968, 20010>>, <<27979, 35797>>, <<21477, 23376>>>>],
     [original    |-> <<<<36825>>, <<26159>>, <<31532, 19968, 20010>>, <<25991, 26412>>>>,
      plagiarized |-> <<<<36825>>, <<26159>>, <<31532, 20108, 20010>>, <<25991, 26412>>>>]}

\* test_edit_distance_similarity, test_edit_distance_similarity_chinese
EditTestInputs ==
    {[original |-> <<97, 98, 99>>, plagiarized |-> <<97, 98, 99>>],
     [original |-> <<97, 98, 99>>, plagiarized |-> <<100, 101, 102>>],
     [original |-> <<97, 98, 99, 100, 101>>, plagiarized |-> <<97, 98, 99, 120, 101>>],
     [original |-> <<20320, 22909, 19990, 30028>>, plagiarized |-> <<20320, 22909, 19990, 30028>>],
     [original |-> <<20320, 22909, 19990, 30028>>, plagiarized |-> <<20320, 22909, 20013, 22269>>],
     [original |-> <<20320, 22909, 19990, 30028>>, plagiarized |-> <<24352, 19977, 26446, 22235>>],
     [original    |-> <<35745, 31639, 26426, 31185, 23398>>,
      plagiarized |-> <<26376, 20142, 22826, 38451, 26143, 26143>>]}

Pairs(S) == {[original |-> a, plagiarized |-> b] : a \in S, b \in S}

\* one word repeated: 15 times in original, 22 times in plagiarized
WfmLongInputs ==
    {[original |-> [i \in 1..15 |-> TokA], plagiarized |-> [i \in 1..22 |-> TokA]]}

WfmInputs == Pairs(SeqsUpTo(WfmTokens, MaxWfmLen)) \cup WfmTestInputs \cup WfmLongInputs
CosInputs == Pairs(SeqsUpTo(CosTokens, MaxCosLen))
EditInputs == Pairs(SeqsUpTo(EditChars, MaxEditLen)) \cup EditTestInputs

Init ==
    /\ \/ fn = "word_frequency_match" /\ args \in WfmInputs
       \/ fn = "cosine_similarity_score" /\ args \in CosInputs
       \/ fn = "edit_distance_similarity" /\ args \in EditInputs
    /\ pc = "call"
    /\ ret = NoOutcome
    /\ locals = NoLocals
    /\ fs = NoFiles

CallWordFrequencyMatch ==
    /\ fn = "word_frequency_match"
    /\ pc = "call"
    /\ pc' = "return"
    /\ ret' = word_frequency_match(args.original, args.plagiarized)
    /\ locals' = IF args.original = <<>> \/ args.plagiarized = <<>> THEN NoLocals
                 ELSE [matched_count |-> matched_count(args.original, args.plagiarized)]
    /\ UNCHANGED <<fn, args, fs>>

CallCosineSimilarityScore ==
    /\ fn = "cosine_similarity_score"
    /\ pc = "call"
    /\ pc' = "return"
    /\ ret' = cosine_similarity_score(args.original, args.plagiarized)
    /\ locals' = IF args.original = <<>> \/ args.plagiarized = <<>> THEN NoLocals
                 ELSE CosineLocals(args.original, args.plagiarized)
    /\ UNCHANGED <<fn, args, fs>>

CallEditDistanceSimilarity ==
    /\ fn = "edit_distance_similarity"
    /\ pc = "call"
    /\ pc' = "return"
    /\ ret' = edit_distance_similarity(args.original, args.plagiarized)
    /\ locals' = IF args.original = <<>> \/ args.plagiarized = <<>> THEN NoLocals
                 ELSE [distance |-> edit_distance(args.original, args.plagiarized)]
    /\ UNCHANGED <<fn, args, fs>>

Next ==
    \/ CallWordFrequencyMatch
    \/ CallCosineSimilarityScore
    \/ CallEditDistanceSimilarity

Spec == Init /\ [][Next]_vars

\* ---------------------------------------------------------------------------
\* calculate_similarity as a state machine
\* ---------------------------------------------------------------------------
CalcTokens == {TokB, TokC}
MaxCalcStrLen == 1

CalcInputs ==
    {[original_tokens |-> ot, plagiarized_tokens |-> pt,
      original_str |-> os, plagiarized_str |-> ps] :
        ot \in SeqsUpTo(CalcTokens, MaxCosLen), pt \in SeqsUpTo(CalcTokens, MaxCosLen),
        os \in SeqsUpTo(EditChars, MaxCalcStrLen), ps \in SeqsUpTo(EditChars, MaxCalcStrLen)}

InitCalc ==
    /\ fn = "calculate_similarity"
    /\ args \in CalcInputs
    /\ pc = "call"
    /\ ret = NoOutcome
    /\ locals = NoLocals
    /\ fs = NoFiles

CallCalculateSimilarity ==
    /\ fn = "calculate_similarity"
    /\ pc = "call"
    /\ pc' = "return"
    /\ ret' = calculate_similarity(args.original_tokens, args.plagiarized_tokens,
                                   args.original_str, args.plagiarized_str)
    /\ UNCHANGED <<fn, args, locals, fs>>

NextCalc == CallCalculateSimilarity

SpecCalc == InitCalc /\ [][NextCalc]_vars

\* ---------------------------------------------------------------------------
\* main as a state machine: one step per statement of its try block
\* ---------------------------------------------------------------------------
OriginalArg == <<"~", "orig.txt">>
OriginalFile == Home \o <<"orig.txt">>
PlagiarizedFile == <<"copy.txt">>
OutputDir == <<"out">>
ResultFiles == {<<"ans.txt">>, OutputDir \o <<"ans.txt">>}

\* the bytes of the input files: blanks only, punctuation only, a byte that is
\* no UTF-8, "a", "A b", one and two CJK characters, "a" and a CJK character
Contents ==
    {<<32, 10>>, <<44>>, <<255>>, <<97>>, <<65, 32, 98>>, <<228, 184, 173>>,
     <<228, 184, 173, 230, 150, 135>>, <<97, 44, 228, 184, 173>>}

\* what can be at the path of an input: a directory, or a file that is
\* unreadable, empty, too large, as large as allowed, failing when opened, or
\* readable with one of the contents (a large file is read as the byte "a")
InputFiles ==
    {Dir(TRUE),
     File(<<97>>, 1, FALSE, TRUE, FALSE),
     File(<<>>, 0, TRUE, TRUE, FALSE),
     File(<<97>>, SizeLimit + 1, TRUE, TRUE, FALSE),
     File(<<97>>, SizeLimit, TRUE, TRUE, FALSE),
     File(<<97>>, 1, TRUE, TRUE, TRUE)}
    \cup {File(content, Len(content), TRUE, TRUE, FALSE) : content \in Contents}

\* what can be at the path of the result: a file that is writable, read-only or
\* failing when opened
OldResults ==
    {File(<<48>>, 1, TRUE, TRUE, FALSE),
     File(<<48>>, 1, TRUE, FALSE, FALSE),
     File(<<48>>, 1, TRUE, TRUE, TRUE)}

\* the file systems with something at path, or nothing
Placed(path, S) == {NoFiles} \cup {path :> x : x \in S}

\* the working directory, the output directory and the result file
ResultSides(result_path) ==
    IF dirname(result_path) = <<>>
    THEN {(Cwd :> Dir(w)) @@ r : w \in BOOLEAN, r \in Placed(result_path, OldResults)}
    ELSE {Cwd :> Dir(w) : w \in BOOLEAN}
         \cup {(Cwd :> Dir(TRUE)) @@ (OutputDir :> Dir(w)) @@ r :
                   w \in BOOLEAN, r \in Placed(result_path, OldResults)}

InitMain ==
    /\ fn = "main"
    /\ \E result_path \in ResultFiles, original \in {<<>>, OriginalArg} :
          /\ args \in {[argv |-> SubSeq(<<<<"main.py">>, original, PlagiarizedFile,
                                           result_path, result_path>>, 1, n)] : n \in 3..5}
          /\ fs \in {o @@ p @@ r :
                        o \in IF original = <<>> THEN {NoFiles}
                              ELSE Placed(OriginalFile, InputFiles),
                        p \in Placed(PlagiarizedFile, InputFiles),
                        r \in ResultSides(result_path)}
    /\ pc = "L24"
    /\ ret = NoOutcome
    /\ locals = NoLocals

\* an exception raised inside the try block
RaiseInMain(exc) ==
    /\ pc' = "except"
    /\ ret' = Raise(exc)
    /\ UNCHANGED <<fn, args, locals, fs>>

\* the next statement, with a local variable assigned
Assign(next, name, value) ==
    /\ pc' = next
    /\ locals' = (name :> value) @@ locals
    /\ UNCHANGED <<fn, args, ret, fs>>

\* the statement x = f(...) with the outcome of the call
Step(outcome, next, name) ==
    IF outcome.kind = "raise" THEN RaiseInMain(outcome.exc)
    ELSE Assign(next, name, outcome.value)

\* the statement tokens, str = preprocess_text(...)
Unpack(next, tokens_name, str_name, pair) ==
    /\ pc' = next
    /\ locals' = (tokens_name :> pair.tokens) @@ (str_name :> pair.str) @@ locals
    /\ UNCHANGED <<fn, args, ret, fs>>

\* a statement that changes the file system, any exception of which is raised
\* again as an IOError
Effect(outcome, next, result, name, value) ==
    IF outcome.kind = "raise" THEN RaiseInMain("IOError")
    ELSE /\ pc' = next
         /\ ret' = result
         /\ locals' = (name :> value) @@ locals
         /\ fs' = outcome.value
         /\ UNCHANGED <<fn, args>>

\* lines 24-30
CheckArgv ==
    /\ fn = "main" /\ pc = "L24"
    /\ IF Len(args.argv) # 4 THEN RaiseInMain("ValueError")
       ELSE /\ pc' = "L33"
            /\ locals' = [original_path    |-> args.argv[2],
                          plagiarized_path |-> args.argv[3],
                          result_path      |-> args.argv[4]]
            /\ UNCHANGED <<fn, args, ret, fs>>

\* line 33
ValidateOriginal ==
    /\ fn = "main" /\ pc = "L33"
    /\ Step(validate_file_path(fs, locals.original_path), "L35", "original_path")

\* line 35
ValidatePlagiarized ==
    /\ fn = "main" /\ pc = "L35"
    /\ Step(validate_file_path(fs, locals.plagiarized_path), "L38", "plagiarized_path")

\* lines 38-43 with the directory never created
SkipOutputDir ==
    /\ fn = "main" /\ pc = "L38"
    /\ Assign("L46", "output_dir", dirname(locals.result_path))

\* lines 38-43
MakeOutputDir ==
    /\ fn = "main" /\ pc = "L38"
    /\ IF dirname(locals.result_path) # <<>> /\ ~exists(fs, dirname(locals.result_path))
       THEN Effect(makedirs(fs, dirname(locals.result_path)), "L46", NoOutcome,
                   "output_dir", dirname(locals.result_path))
       ELSE Assign("L46", "output_dir", dirname(locals.result_path))

\* lines 46-47
CheckWritePermission ==
    /\ fn = "main" /\ pc = "L46"
    /\ IF exists(fs, locals.result_path) /\ ~access_W_OK(fs, locals.result_path)
       THEN RaiseInMain("PermissionError")
       ELSE /\ pc' = "L50"
            /\ UNCHANGED <<fn, args, ret, locals, fs>>

\* line 50
ReadOriginal ==
    /\ fn = "main" /\ pc = "L50"
    /\ Step(read_file(fs, locals.original_path), "L52", "original_text")

\* line 52
ReadPlagiarized ==
    /\ fn = "main" /\ pc = "L52"
    /\ Step(read_file(fs, locals.plagiarized_path), "L57", "plagiarized_text")

\* line 57
PreprocessOriginal ==
    /\ fn = "main" /\ pc = "L57"
    /\ \E cut \in Segmenters(jieba_inputs(locals.original_text)) :
          Unpack("L58", "original_tokens", "original_str",
                 preprocess_text(locals.original_text, cut))

\* line 58
PreprocessPlagiarized ==
    /\ fn = "main" /\ pc = "L58"
    /\ \E cut \in Segmenters(jieba_inputs(locals.plagiarized_text)) :
          Unpack("L61", "plagiarized_tokens", "plagiarized_str",
                 preprocess_text(locals.plagiarized_text, cut))

\* lines 61-62
CheckOriginalContent ==
    /\ fn = "main" /\ pc = "L61"
    /\ IF locals.original_tokens = <<>> \/ locals.original_str = <<>>
       THEN RaiseInMain("ValueError")
       ELSE /\ pc' = "L63"
            /\ UNCHANGED <<fn, args, ret, locals, fs>>

\* lines 63-64
CheckPlagiarizedContent ==
    /\ fn = "main" /\ pc = "L63"
    /\ IF locals.plagiarized_tokens = <<>> \/ locals.plagiarized_str = <<>>
       THEN RaiseInMain("ValueError")
       ELSE /\ pc' = "L67"
            /\ UNCHANGED <<fn, args, ret, locals, fs>>

\* line 67
CalculateSimilarity ==
    /\ fn = "main" /\ pc = "L67"
    /\ Step(calculate_similarity(locals.original_tokens, locals.plagiarized_tokens,
                                 locals.original_str, locals.plagiarized_str),
            "L70", "similarity")

\* line 70
RoundResult ==
    /\ fn = "main" /\ pc = "L70"
    /\ Assign("L74", "result", round2(FMul(locals.similarity, FFromInt(100))))

\* lines 73-78
WriteResult ==
    /\ fn = "main" /\ pc = "L74"
    /\ Effect(write_file(fs, locals.result_path, encode_utf8(format_2f(locals.result))),
              "done", Return("None"), "written", encode_utf8(format_2f(locals.result)))

SysExit(status) == [kind |-> "exit", status |-> status]

\* lines 80-83
HandleException ==
    /\ fn = "main" /\ pc = "except"
    /\ pc' = "exit"
    /\ ret' = SysExit(1)
    /\ UNCHANGED <<fn, args, locals, fs>>

NextMain ==
    \/ CheckArgv
    \/ ValidateOriginal
    \/ ValidatePlagiarized
    \/ MakeOutputDir
    \/ CheckWritePermission
    \/ ReadOriginal
    \/ ReadPlagiarized
    \/ PreprocessOriginal
    \/ PreprocessPlagiarized
    \/ CheckOriginalContent
    \/ CheckPlagiarizedContent
    \/ CalculateSimilarity
    \/ RoundResult
    \/ WriteResult
    \/ HandleException

\* main moves on from the statement it is at
Advance ==
    /\ pc \notin {"done", "exit"}
    /\ pc' \in {"L33", "L35", "L38", "L46", "L50", "L52", "L57", "L58", "L61",
               "L63", "L67", "L70", "L74", "except", "done", "exit"} \ {pc}

\* main runs on one thread, which executes the statement it has reached: every
\* step of NextMain changes pc and one is possible wherever main has not
\* finished, so the fairness of NextMain is stated on pc
SpecMain == InitMain /\ [][NextMain]_vars /\ WF_pc(Advance)

\* ---------------------------------------------------------------------------
\* preprocess_text and validate_file_path as a state machine: one call each
\* ---------------------------------------------------------------------------
\* the characters of the texts: "A", "b", "1", two CJK ideographs, an ideograph
\* outside U+4E00..U+9FFF (alphanumeric, not Chinese for is_chinese_char),
\* ",", the full-width period, a blank and the euro sign (a symbol that is
\* neither in punctuation nor alphanumeric)
PreChars == {65, 98, 49, 20013, 25991, 13312, 44, 12290, 32, 8364}
MaxTextLen == 3

\* "Ab1,中。文c", "abc你好def", "中 文b中" and "A<tab>。€<ideographic space>b!"
PreTexts ==
    {<<65, 98, 49, 44, 20013, 12290, 25991, 99>>,
     <<97, 98, 99, 20320, 22909, 100, 101, 102>>,
     <<20013, 32, 25991, 98, 20013>>,
     <<65, 9, 12290, 8364, 12288, 98, 33>>}

\* the paths validate_file_path is called with and what is there: nothing, a
\* directory, or a file of each size around the limits, readable or not
ValidatePaths == {<<>>, OriginalArg, PlagiarizedFile}
ValidateSizes == {0, 1, SizeLimit - 1, SizeLimit, SizeLimit + 1}
ValidateFiles ==
    {Dir(TRUE)} \cup {File(<<97>>, size, readable, TRUE, FALSE) :
                         size \in ValidateSizes, readable \in BOOLEAN}

InitUtils ==
    /\ \/ /\ fn = "preprocess_text"
          /\ args \in {[text |-> text] : text \in SeqsUpTo(PreChars, MaxTextLen) \cup PreTexts}
          /\ fs = NoFiles
       \/ /\ fn = "validate_file_path"
          /\ args \in {[file_path |-> path] : path \in ValidatePaths}
          /\ fs \in {a @@ b : a \in Placed(OriginalFile, ValidateFiles),
                              b \in Placed(PlagiarizedFile, ValidateFiles)}
    /\ pc = "call"
    /\ ret = NoOutcome
    /\ locals = NoLocals

\* preprocess_text(text) with one of the segmenters jieba can be; the locals
\* are the stage-1 tokens and the strings jieba.cut was called with, in order
CallPreprocessText ==
    /\ fn = "preprocess_text"
    /\ pc = "call"
    /\ pc' = "return"
    /\ \E cut \in Segmenters(jieba_inputs(args.text)) :
           /\ ret' = Return(preprocess_text(args.text, cut))
           /\ locals' = [tokens |-> split_tokens(args.text),
                         cuts   |-> cut_inputs(segment_parts(split_tokens(args.text))),
                         cut    |-> cut]
    /\ UNCHANGED <<fn, args, fs>>

CallValidateFilePath ==
    /\ fn = "validate_file_path"
    /\ pc = "call"
    /\ pc' = "return"
    /\ ret' = validate_file_path(fs, args.file_path)
    /\ UNCHANGED <<fn, args, locals, fs>>

NextUtils ==
    \/ CallPreprocessText
    \/ CallValidateFilePath

SpecUtils == InitUtils /\ [][NextUtils]_vars

\* ---------------------------------------------------------------------------
\* Properties of the scorers
\* ---------------------------------------------------------------------------
Returned == ret # NoOutcome
NonEmptyArgs == args.original # <<>> /\ args.plagiarized # <<>>

\* C6: each of the three scorers returns exactly 0.0, and raises nothing, when
\* its first argument, its second argument or both are empty
EmptyInputGivesZero ==
    (Returned /\ ~NonEmptyArgs) => ret = Return(FZero)

EmptyInputGivesZeroWitness ==
    /\ fn = "word_frequency_match"
    /\ args.original # <<>> /\ args.plagiarized = <<>>
    /\ ret = Return(FZero)

\* the number of occurrences of t in seq
Count(t, seq) == Cardinality({i \in 1..Len(seq) : seq[i] = t})

\* the size of the multiset intersection of two sequences
RECURSIVE SumMin(_, _, _)
SumMin(a, b, S) ==
    IF S = {} THEN 0
    ELSE LET t == CHOOSE t \in S : TRUE
         IN  Min2(Count(t, a), Count(t, b)) + SumMin(a, b, S \ {t})

MultisetIntersectionSize(a, b) == SumMin(a, b, Range(a) \cup Range(b))

ThreeQuarters == FRound(FALSE, <<3>>, -2, FALSE)

\* C8: for non-empty token sequences word_frequency_match returns
\* matched / len(candidate), where matched is the size of the multiset
\* intersection of the two sequences (for every token the smaller of its two
\* counts, whatever the order of the tokens); 3 matched of 4 gives 0.75
FrequencyMatchIsMultisetIntersection ==
    (fn = "word_frequency_match" /\ Returned /\ NonEmptyArgs) =>
        /\ locals.matched_count = MultisetIntersectionSize(args.original, args.plagiarized)
        /\ ret = Return(FDiv(FFromInt(locals.matched_count), FFromInt(Len(args.plagiarized))))
        /\ (locals.matched_count = 3 /\ Len(args.plagiarized) = 4) => ret.value = ThreeQuarters

FrequencyMatchWitness ==
    /\ fn = "word_frequency_match" /\ Returned
    /\ Len(args.original) = 4 /\ Len(args.plagiarized) = 4
    /\ locals.matched_count = 3
    /\ ret.value = ThreeQuarters

\* the strings one insertion, deletion or substitution away from s
Edits(s) ==
    {SubSeq(s, 1, i - 1) \o SubSeq(s, i + 1, Len(s)) : i \in 1..Len(s)}
    \cup {[s EXCEPT ![i] = c] : i \in 1..Len(s), c \in EditChars}
    \cup (IF Len(s) >= MaxEditLen THEN {}
          ELSE {SubSeq(s, 1, i) \o <<c>> \o SubSeq(s, i + 1, Len(s)) :
                   i \in 0..Len(s), c \in EditChars})

\* the strings at most k edits away from a (no string longer than the longer
\* of two strings is needed on a shortest way between them)
RECURSIVE Within(_, _)
Within(a, k) ==
    IF k = 0 THEN {a}
    ELSE LET w == Within(a, k - 1) IN w \cup UNION {Edits(t) : t \in w}

WithinTable == [a \in SeqsUpTo(EditChars, MaxEditLen) |-> [k \in 0..MaxEditLen |-> Within(a, k)]]

\* the least number of edits that turn a into b
Levenshtein(a, b) ==
    CHOOSE k \in 0..MaxEditLen :
        /\ b \in WithinTable[a][k]
        /\ k = 0 \/ b \notin WithinTable[a][k - 1]

FourFifths == FDiv(FFromInt(4), FFromInt(5))

\* C9: for non-empty strings edit_distance_similarity returns
\* 1 - d / max(len(a), len(b)) where d, the last cell of the table, is the
\* least number of single-character insertions, deletions and substitutions
\* that turn a into b; one substitution in five characters gives 0.8 and no
\* common character gives 0.0
EditSimilarityIsLevenshtein ==
    (fn = "edit_distance_similarity" /\ Returned /\ NonEmptyArgs) =>
        LET a == args.original
            b == args.plagiarized
            longer == Max2(Len(a), Len(b))
        IN  /\ ret = Return(FSub(FOne, FDiv(FFromInt(locals.distance), FFromInt(longer))))
            /\ (Range(a) \cup Range(b) \subseteq EditChars /\ longer <= MaxEditLen) =>
                   locals.distance = Levenshtein(a, b)
            /\ (Len(a) = 5 /\ Len(b) = 5
                   /\ Cardinality({i \in 1..5 : a[i] # b[i]}) = 1) =>
                   locals.distance = 1 /\ ret.value = FourFifths
            /\ Range(a) \cap Range(b) = {} =>
                   locals.distance = longer /\ ret.value = FZero

EditSimilarityWitness ==
    /\ fn = "edit_distance_similarity" /\ Returned
    /\ args.original = <<97, 98, 99, 100, 101>>
    /\ args.plagiarized = <<97, 98, 99, 120, 101>>
    /\ ret.value = FourFifths

\* a distance that needs an insertion, a deletion and no substitution
EditDistanceWitness ==
    /\ fn = "edit_distance_similarity" /\ Returned
    /\ args.original = <<97, 98, 98, 98>>
    /\ args.plagiarized = <<98, 98, 98, 97>>
    /\ locals.distance = 2

\* the terms the tokens of a sequence expand to
Expansion(tokens) == UNION {get_synonyms(tokens[i]) : i \in 1..Len(tokens)}

\* the occurrences in tokens whose synonym set holds w
Occurrences(w, tokens) == Cardinality({i \in 1..Len(tokens) : w \in get_synonyms(tokens[i])})

\* C10: for non-empty token sequences, with every synonym set holding its own
\* token, cosine_similarity_score returns 0.0 exactly when the two expansions
\* share no term and a positive value otherwise; every occurrence of a token
\* adds 1 to the count of each member of its synonym set
CosineZeroIffDisjoint ==
    (fn = "cosine_similarity_score" /\ Returned /\ NonEmptyArgs) =>
        /\ ret.kind = "return"
        /\ ret.value = FZero <=> Expansion(args.original) \cap Expansion(args.plagiarized) = {}
        /\ ret.value # FZero => FLt(FZero, ret.value)
        /\ locals.vocab = Expansion(args.original) \cup Expansion(args.plagiarized)
        /\ \A w \in locals.vocab :
               /\ locals.original_vector[w] = Occurrences(w, args.original)
               /\ locals.plagiarized_vector[w] = Occurrences(w, args.plagiarized)

\* different tokens that share a synonym score above zero
CosineSharedSynonymWitness ==
    /\ fn = "cosine_similarity_score" /\ Returned
    /\ args.original = <<TokC>> /\ args.plagiarized = <<TokD, TokD>>
    /\ locals.plagiarized_vector[TermX] = 2
    /\ FLt(FZero, ret.value)

\* C5: for non-empty inputs the edit-distance score and the cosine score do not
\* change when original and candidate are swapped
SwapSymmetric ==
    (Returned /\ NonEmptyArgs) =>
        /\ fn = "edit_distance_similarity" =>
               ret = edit_distance_similarity(args.plagiarized, args.original)
        /\ fn = "cosine_similarity_score" =>
               ret = cosine_similarity_score(args.plagiarized, args.original)

SwapSymmetricWitness ==
    /\ fn = "edit_distance_similarity" /\ Returned
    /\ args.original = <<97, 98>> /\ args.plagiarized = <<97, 98, 98, 97>>
    /\ ret = Return(FDiv(FFromInt(1), FFromInt(2)))

SelfComparison == Returned /\ NonEmptyArgs /\ args.original = args.plagiarized

\* the dot product equals the product of the two norms (both are not negative)
DotEqualsNormProduct ==
    locals.dot_product * locals.dot_product = locals.sumsq_original * locals.sumsq_plagiarized

FAbs(x) == [x EXCEPT !.neg = FALSE]

\* 2^-51, four roundings of relative size 2^-53
CosineTolerance == FRound(FALSE, <<1>>, -51, FALSE)

\* C3 as stated: a non-empty input compared with itself scores exactly 1.0 in
\* all three scorers, the dot product being the product of the two norms
SelfComparisonIsExactlyOne ==
    SelfComparison =>
        /\ ret = Return(FOne)
        /\ fn = "cosine_similarity_score" => DotEqualsNormProduct

\* C3: a non-empty input compared with itself scores exactly 1.0 in
\* word_frequency_match and edit_distance_similarity; in
\* cosine_similarity_score the dot product is the product of the two norms and
\* the returned float is within 2^-51 of 1, below it or above it
SelfComparisonIsOneUpToRounding ==
    SelfComparison =>
        /\ fn # "cosine_similarity_score" => ret = Return(FOne)
        /\ fn = "cosine_similarity_score" =>
               /\ ret.kind = "return"
               /\ DotEqualsNormProduct
               /\ FLe(FAbs(FSub(ret.value, FOne)), CosineTolerance)

\* ["a", "b"] against itself: 5 / (sqrt(5) * sqrt(5)) = 0.9999999999999998
SelfComparisonWitness ==
    /\ fn = "cosine_similarity_score" /\ SelfComparison
    /\ args.original = <<TokA, TokB>>
    /\ locals.dot_product = 5
    /\ FLt(ret.value, FOne)

\* C4: whatever the inputs, each scorer returns a value r with 0 <= r <= 1; for
\* the cosine scorer 0 <= dot <= |vecA| * |vecB|
ScoresInUnitRange ==
    Returned =>
        /\ ret.kind = "return"
        /\ FLe(FZero, ret.value) /\ FLe(ret.value, FOne)
        /\ (fn = "cosine_similarity_score" /\ NonEmptyArgs) =>
               /\ 0 <= locals.dot_product
               /\ locals.dot_product * locals.dot_product
                      <= locals.sumsq_original * locals.sumsq_plagiarized

\* ["c"] against itself, three terms counted once each:
\* 3 / (sqrt(3) * sqrt(3)) = 1.0000000000000002
CosineAboveOne ==
    /\ fn = "cosine_similarity_score" /\ Returned
    /\ args.original = <<TokC>> /\ args.plagiarized = <<TokC>>
    /\ locals.dot_product = 3
    /\ FLt(FOne, ret.value)

\* ---------------------------------------------------------------------------
\* Properties of calculate_similarity
\* ---------------------------------------------------------------------------
CalcInputsNonEmpty ==
    /\ args.original_tokens # <<>> /\ args.plagiarized_tokens # <<>>
    /\ args.original_str # <<>> /\ args.plagiarized_str # <<>>

\* C1: for non-empty token sequences and non-empty strings
\* calculate_similarity returns a number s with 0 <= s <= 1
SimilarityInUnitRange ==
    (pc = "return" /\ CalcInputsNonEmpty) =>
        /\ ret.kind = "return"
        /\ FLe(FZero, ret.value) /\ FLe(ret.value, FOne)

\* identical inputs whose cosine score is above 1: the mean is 1.0
SimilarityInUnitRangeWitness ==
    /\ pc = "return"
    /\ args.original_tokens = <<TokC>> /\ args.plagiarized_tokens = <<TokC>>
    /\ args.original_str = <<97>> /\ args.plagiarized_str = <<97>>
    /\ FLt(FOne, cosine_similarity_score(args.original_tokens, args.plagiarized_tokens).value)
    /\ ret = Return(FOne)

ResultWritable(files, result_path) ==
    LET output_dir == dirname(result_path)
        made == IF output_dir # <<>> /\ ~exists(files, output_dir)
                THEN makedirs(files, output_dir) ELSE Return(files)
    IN  /\ made.kind = "return"
        /\ write_file(made.value, result_path, <<>>).kind = "return"

\* the text of the file is read and gives tokens and a string, whatever the
\* segmenter
Preprocessable(files, path) ==
    LET text == read_file(files, path)
    IN  /\ text.kind = "return"
        /\ \A cut \in Segmenters(jieba_inputs(text.value)) :
               /\ preprocess_text(text.value, cut).tokens # <<>>
               /\ preprocess_text(text.value, cut).str # <<>>

\* three arguments, two inputs that pass validate_file_path, are read and give
\* tokens and a string, and a result path that can be written; no step of
\* main changes whether this holds
MainPre ==
    /\ fn = "main"
    /\ Len(args.argv) = 4
    /\ validate_file_path(fs, args.argv[2]).kind = "return"
    /\ validate_file_path(fs, args.argv[3]).kind = "return"
    /\ Preprocessable(fs, expanduser(args.argv[2]))
    /\ Preprocessable(fs, expanduser(args.argv[3]))
    /\ ResultWritable(fs, args.argv[4])

\* the result file holds the similarity as a percentage between 0 and 100 with
\* two decimal places
MainWritten ==
    /\ pc = "done" /\ ret = Return("None")
    /\ isfile(fs, args.argv[4])
    /\ fs[args.argv[4]].content = encode_utf8(format_2f(locals.result))
    /\ locals.result = round2(FMul(locals.similarity, FFromInt(100)))
    /\ Hundredths(locals.result) \in 0..10000
    /\ LET text == fs[args.argv[4]].content
       IN  /\ Len(text) \in 4..6
           /\ text[Len(text) - 2] = 46
           /\ \A i \in (1..Len(text)) \ {Len(text) - 2} : text[i] \in 48..57

\* C2: a run of main with three arguments, valid and readable inputs that give
\* non-empty tokens and strings, and a writable result path never exits with
\* status 1 and eventually writes the percentage, two decimal places, to the
\* result file
MainWritesPercentage ==
    /\ [](MainPre => (pc # "except" /\ ret # SysExit(1)))
    /\ (pc = "L24" /\ MainPre) ~> MainWritten

\* "a,<CJK>" against "a" with the output directory made on the way: 77.22
MainWritesPercentageWitness ==
    /\ MainPre /\ MainWritten
    /\ args.argv[4] = OutputDir \o <<"ans.txt">>
    /\ locals.output_dir = OutputDir
    /\ locals.original_tokens = <<TokA, <<20013>>>>
    /\ locals.plagiarized_tokens = <<TokA>>
    /\ fs[args.argv[4]].content = <<55, 55, 46, 50, 50>>

\* ---------------------------------------------------------------------------
\* Properties of preprocess_text
\* ---------------------------------------------------------------------------
PreprocessReturned == fn = "preprocess_text" /\ Returned

\* an alphanumeric character outside U+4E00..U+9FFF
IsWordChar(char) == isalnum(char) /\ ~is_chinese_char(char)

NoChinese(token) == \A i \in 1..Len(token) : ~is_chinese_char(token[i])

\* the word characters of text from position i up to the next other character,
\* each lowercased
RECURSIVE WordFrom(_, _)
WordFrom(text, i) ==
    IF i > Len(text) \/ ~IsWordChar(text[i]) THEN <<>>
    ELSE <<lower(text[i])>> \o WordFrom(text, i + 1)

\* the maximal runs of word characters that start at position i or after it:
\* a run starts where a word character follows no word character
RECURSIVE WordsFrom(_, _)
WordsFrom(text, i) ==
    IF i > Len(text) THEN <<>>
    ELSE (IF IsWordChar(text[i]) /\ (i = 1 \/ ~IsWordChar(text[i - 1]))
          THEN <<WordFrom(text, i)>> ELSE <<>>) \o WordsFrom(text, i + 1)

\* C11: whatever segmentation jieba gives, no token of preprocess_text is empty
\* or whitespace-only, no token holds a punctuation mark, a symbol or a
\* whitespace character, and the tokens without a Chinese character are, in
\* order, the maximal runs of alphanumeric non-Chinese characters of the text,
\* lowercased
TokensAreLowercasedRuns ==
    PreprocessReturned =>
        /\ ret.kind = "return"
        /\ \A k \in 1..Len(ret.value.tokens) :
               /\ ret.value.tokens[k] # <<>>
               /\ \E i \in 1..Len(ret.value.tokens[k]) :
                      ret.value.tokens[k][i] \notin whitespace
               /\ \A i \in 1..Len(ret.value.tokens[k]) :
                      /\ isalnum(ret.value.tokens[k][i])
                      /\ ret.value.tokens[k][i] \notin punctuation \cup whitespace
        /\ SelectSeq(ret.value.tokens, NoChinese) = WordsFrom(args.text, 1)

\* "Ab1,中。文c" gives "ab1", "中文" (when jieba keeps it whole) and "c"
TokensAreLowercasedRunsWitness ==
    /\ PreprocessReturned
    /\ args.text = <<65, 98, 49, 44, 20013, 12290, 25991, 99>>
    /\ ret.value.tokens = <<<<97, 98, 49>>, <<20013, 25991>>, <<99>>>>

\* a character that is neither a punctuation mark of the fixed set nor
\* whitespace
Kept(char) == char \notin punctuation /\ char \notin whitespace

\* C12: the normalized string is the text without its punctuation marks and
\* whitespace characters, every other character kept as it is and in order,
\* and normalizing it again changes nothing
NormalizedIsFilteredText ==
    PreprocessReturned =>
        /\ ret.kind = "return"
        /\ ret.value.str = SelectSeq(args.text, Kept)
        /\ edit_str(ret.value.str) = ret.value.str

\* "A<tab>。€<ideographic space>b!" gives "A€b"
NormalizedIsFilteredTextWitness ==
    /\ PreprocessReturned
    /\ args.text = <<65, 9, 12290, 8364, 12288, 98, 33>>
    /\ ret.value.str = <<65, 8364, 98>>

\* ---------------------------------------------------------------------------
\* Properties of validate_file_path
\* ---------------------------------------------------------------------------
ValidateReturned == fn = "validate_file_path" /\ Returned

\* the path with the user directory expanded, and whether a file is there
ValidateTarget ==
    IF args.file_path # <<>> /\ Head(args.file_path) = "~"
    THEN <<"home">> \o Tail(args.file_path) ELSE args.file_path

TargetIsFile == ValidateTarget \in DOMAIN fs /\ fs[ValidateTarget].kind = "file"

\* the six checks in the order of the claim, each with its exception
ValidateExceptions ==
    <<"ValueError", "FileNotFoundError", "IsADirectoryError", "PermissionError",
      "ValueError", "IOError">>

\* the checks the path fails, each taken alone
FailedChecks ==
    {n \in 1..6 :
        \/ n = 1 /\ args.file_path = <<>>
        \/ n = 2 /\ ValidateTarget \notin DOMAIN fs
        \/ n = 3 /\ ValidateTarget \in DOMAIN fs /\ ~TargetIsFile
        \/ n = 4 /\ TargetIsFile /\ ~fs[ValidateTarget].readable
        \/ n = 5 /\ TargetIsFile /\ fs[ValidateTarget].size = 0
        \/ n = 6 /\ TargetIsFile /\ fs[ValidateTarget].size > 100 * 1024 * 1024}

\* C13: validate_file_path raises the exception of the first check that fails
\* in the order empty path, existence, regular file, read permission, zero
\* size, size above 100 * 1024 * 1024, and returns the path when none fails
ValidateReportsFirstFailure ==
    ValidateReturned =>
        IF FailedChecks = {} THEN ret = Return(ValidateTarget)
        ELSE ret = Raise(ValidateExceptions[CHOOSE n \in FailedChecks :
                                                \A k \in FailedChecks : n <= k])

\* an unreadable file of size zero fails two checks: PermissionError comes first
ValidateReportsFirstFailureWitness ==
    /\ ValidateReturned
    /\ args.file_path = PlagiarizedFile
    /\ FailedChecks = {4, 5}
    /\ ret = Raise("PermissionError")

\* a readable file of exactly 100 * 1024 * 1024 bytes passes
ValidateAtLimitWitness ==
    /\ ValidateReturned
    /\ args.file_path = OriginalArg
    /\ TargetIsFile /\ fs[ValidateTarget].size = 100 * 1024 * 1024
    /\ ret = Return(OriginalFile)

\* ---------------------------------------------------------------------------
\* The two directions of word_frequency_match
\* ---------------------------------------------------------------------------
FrequencyMatchReturned == fn = "word_frequency_match" /\ Returned /\ NonEmptyArgs

\* the call with original and plagiarized exchanged
SwappedFrequencyMatch == word_frequency_match(args.plagiarized, args.original)

ScoresDifferWhenLengthsDo ==
    (ret # SwappedFrequencyMatch)
        <=> (Len(args.original) # Len(args.plagiarized) /\ locals.matched_count > 0)

\* C14 as stated: score(A, B) * len(B) = score(B, A) * len(A), the products
\* taken as the program takes them, in floating point
MatchedProductsAgree ==
    FrequencyMatchReturned =>
        /\ FMul(ret.value, FFromInt(Len(args.plagiarized)))
               = FMul(SwappedFrequencyMatch.value, FFromInt(Len(args.original)))
        /\ ScoresDifferWhenLengthsDo

\* C14: the matched count m is the same in both directions, score(A, B) is the
\* float m / len(B) and score(B, A) the float m / len(A), and the two scores
\* differ exactly when the lengths differ and m > 0
MatchedCountIsSymmetric ==
    FrequencyMatchReturned =>
        /\ locals.matched_count = matched_count(args.plagiarized, args.original)
        /\ ret = Return(FDiv(FFromInt(matched_count(args.plagiarized, args.original)),
                             FFromInt(Len(args.plagiarized))))
        /\ ScoresDifferWhenLengthsDo

\* ["a"] against ["a", "b"] scores 1/2, ["a", "b"] against ["a"] scores 1
MatchedCountIsSymmetricWitness ==
    /\ FrequencyMatchReturned
    /\ args.original = <<TokA>> /\ args.plagiarized = <<TokA, TokB>>
    /\ locals.matched_count = 1
    /\ ret = Return(FDiv(FFromInt(1), FFromInt(2)))
    /\ SwappedFrequencyMatch = Return(FOne)

\* ---------------------------------------------------------------------------
\* The calls of jieba.cut
\* ---------------------------------------------------------------------------
\* the Chinese characters of text from position i up to the next word
\* character, the other characters between them left out
RECURSIVE CutFrom(_, _)
CutFrom(text, i) ==
    IF i > Len(text) \/ IsWordChar(text[i]) THEN <<>>
    ELSE (IF is_chinese_char(text[i]) THEN <<text[i]>> ELSE <<>>) \o CutFrom(text, i + 1)

\* position i holds the first Chinese character after a word character or
\* after the start of the text
StartsCut(text, i) ==
    /\ is_chinese_char(text[i])
    /\ \A p \in 1..(i - 1) :
           is_chinese_char(text[p]) => \E k \in p..i : IsWordChar(text[k])

\* the strings two Chinese characters share exactly when no word character
\* lies between them, from position i on
RECURSIVE ExpectedCuts(_, _)
ExpectedCuts(text, i) ==
    IF i > Len(text) THEN <<>>
    ELSE (IF StartsCut(text, i) THEN <<CutFrom(text, i)>> ELSE <<>>)
             \o ExpectedCuts(text, i + 1)

\* the tokens in document order: a word where its run starts, the pieces cut
\* gives for a string where its first character stands
RECURSIVE ExpectedTokens(_, _, _)
ExpectedTokens(text, i, cut) ==
    IF i > Len(text) THEN <<>>
    ELSE (IF StartsCut(text, i) THEN cut[CutFrom(text, i)]
          ELSE IF IsWordChar(text[i]) /\ (i = 1 \/ ~IsWordChar(text[i - 1]))
          THEN <<WordFrom(text, i)>>
          ELSE <<>>) \o ExpectedTokens(text, i + 1, cut)

\* C15: the strings jieba.cut is called with, joined in call order, are the
\* Chinese characters of the text in order; two of them are in the same string
\* exactly when no alphanumeric non-Chinese character lies between them; and
\* the tokens returned are the words and the pieces of each string, each at
\* its place in the text
CutsAreMaximalChineseRuns ==
    PreprocessReturned =>
        /\ join(locals.cuts) = SelectSeq(args.text, is_chinese_char)
        /\ locals.cuts = ExpectedCuts(args.text, 1)
        /\ ret.value.tokens = ExpectedTokens(args.text, 1, locals.cut)

\* "中 文b中": jieba.cut is called with "中文" and with "中"; with "中文" cut in
\* two the tokens are "中", "文", "b", "中"
CutsAreMaximalChineseRunsWitness ==
    /\ PreprocessReturned
    /\ args.text = <<20013, 32, 25991, 98, 20013>>
    /\ locals.cuts = <<<<20013, 25991>>, <<20013>>>>
    /\ ret.value.tokens = <<<<20013>>, <<25991>>, <<98>>, <<20013>>>>

====
